---- MODULE Spec2Model ----
(***************************************************************************)
(* pandas-drf-tools: the limit/offset pager over a DataFrame               *)
(* (pandas_drf_tools/pagination.py) and the generic DataFrame views        *)
(* (pandas_drf_tools/generics.py, mixins.py).                              *)
(*                                                                         *)
(* A request's query string is a sequence of <<key, value>> pairs; a value *)
(* is a string, modelled as a sequence of one-character strings, so that   *)
(* int() and str() are real conversions.  An optional value (Python None)  *)
(* is the empty sequence, a present value v is <<v>>.                      *)
(* A DataFrame is a sequence of rows [index, a, b].                        *)
(***************************************************************************)
EXTENDS Integers, Sequences, FiniteSets, TLC

VARIABLES
    dataframe,              \* the view's table (self.dataframe)
    dataframe0,             \* the table when the view was set up
    updated,                \* the last argument of update_dataframe, if any
    pagination_class,       \* "None" or "LimitOffsetPagination"
    default_limit,          \* LimitOffsetPagination.default_limit
    max_limit,              \* LimitOffsetPagination.max_limit
    request,                \* the query string of the request being served
    limit, offset, count,   \* the paginator's attributes, None while unset
    display_page_controls,
    page,                   \* what paginate_dataframe returned
    response,               \* the response of the last request
    html,                   \* what get_html_context returned
    origin,                 \* the page whose next link led to this request
    traversal,              \* the pages a client got from its first request on
    kwargs,                 \* the row label in the URL of the last request, if any
    request_data,           \* the body of the last request, None when rejected
    op                      \* the last operation

vars == <<dataframe, dataframe0, updated, pagination_class, default_limit,
          max_limit, request, limit, offset, count, display_page_controls,
          page, response, html, origin, traversal, kwargs,
          request_data, op>>

config == <<pagination_class, default_limit, max_limit, dataframe0>>

pager == <<request, limit, offset, count, display_page_controls, page, html, origin,
          traversal>>

call == <<kwargs, request_data>>

(***************************************************************************)
(* Bounds of the model.                                                    *)
(***************************************************************************)
MaxRows == 3
MaxParamValue == 2
MaxParams == 2
MaxDefaultLimit == 2
MaxLimit == 1

(***************************************************************************)
(* Optional values.                                                        *)
(***************************************************************************)
None == <<>>

Some(v) == <<v>>

IsNone(o) == o = <<>>

Val(o) == o[1]

Min(x, y) == IF x <= y THEN x ELSE y

Max(x, y) == IF x >= y THEN x ELSE y

(***************************************************************************)
(* Strings, int() and str().                                               *)
(***************************************************************************)
Digits == <<"0", "1", "2", "3", "4", "5", "6", "7", "8", "9">>

IsDigit(c) == \E i \in 1..Len(Digits) : Digits[i] = c

DigitValue(c) == (CHOOSE i \in 1..Len(Digits) : Digits[i] = c) - 1

RECURSIVE StrNat(_)
StrNat(n) == IF n < 10 THEN <<Digits[n + 1]>>
             ELSE StrNat(n \div 10) \o <<Digits[(n % 10) + 1]>>

\* str(n) of a Python int.
str(n) == IF n < 0 THEN <<"-">> \o StrNat(0 - n) ELSE StrNat(n)

RECURSIVE NatOf(_)
NatOf(s) == IF Len(s) = 0 THEN 0
            ELSE 10 * NatOf(SubSeq(s, 1, Len(s) - 1)) + DigitValue(s[Len(s)])

AllDigits(s) == Len(s) > 0 /\ \A i \in 1..Len(s) : IsDigit(s[i])

\* int(s) raises ValueError unless s is an optionally signed run of digits.
IntRaises(s) == IF Len(s) > 0 /\ s[1] = "-" THEN ~AllDigits(Tail(s)) ELSE ~AllDigits(s)

int(s) == IF s[1] = "-" THEN 0 - NatOf(Tail(s)) ELSE NatOf(s)

(***************************************************************************)
(* rest_framework.pagination helpers imported by pagination.py.            *)
(***************************************************************************)
\* _positive_int raises ValueError (from int(), or for a negative value, or
\* for zero when strict).
positive_int_raises(s, strict) ==
    \/ IntRaises(s)
    \/ int(s) < 0
    \/ (int(s) = 0 /\ strict)

\* _positive_int that ignores its cutoff.
positive_int_uncut(s, strict, cutoff) == int(s)

\* cutoff is optional; "if cutoff:" is false for None (and for 0).
positive_int(s, strict, cutoff) ==
    IF ~IsNone(cutoff) /\ Val(cutoff) # 0 THEN Min(int(s), Val(cutoff)) ELSE int(s)

divide_with_ceil(a, b) == IF a % b # 0 THEN (a \div b) + 1 ELSE a \div b

(***************************************************************************)
(* Query strings: request.query_params and rest_framework.utils.urls.      *)
(***************************************************************************)
limit_query_param == "limit"

offset_query_param == "offset"

\* The keys a query may carry, in the order sorted() puts them.
Keys == <<"limit", "offset", "q">>

\* parse_qs: for a key, the list of its values in order of appearance.
values_of(query, key) ==
    LET hits == SelectSeq(query, LAMBDA p : p[1] = key)
    IN  [i \in 1..Len(hits) |-> hits[i][2]]

\* "key in request.query_params"; request.query_params[key] raises KeyError otherwise.
has_param(query, key) == Len(values_of(query, key)) > 0

\* request.query_params[key]: the last value given for the key.
query_param(query, key) == values_of(query, key)[Len(values_of(query, key))]

pairs_of(key, vals) == [i \in 1..Len(vals) |-> <<key, vals[i]>>]

RECURSIVE urlencode(_, _)

\* urlencode(sorted(query_dict.items()), doseq=True) from key number i on.
urlencode(qdict, i) ==
    IF i > Len(Keys) THEN <<>>
    ELSE pairs_of(Keys[i], qdict[Keys[i]]) \o urlencode(qdict, i + 1)

parse_qs(query) == [k \in {Keys[i] : i \in 1..Len(Keys)} |-> values_of(query, k)]

\* replace_query_param that adds the value to those already given.
replace_query_param_appends(url, key, val) ==
    urlencode([parse_qs(url) EXCEPT ![key] = @ \o <<str(val)>>], 1)

replace_query_param(url, key, val) ==
    urlencode([parse_qs(url) EXCEPT ![key] = <<str(val)>>], 1)

remove_query_param(url, key) ==
    urlencode([parse_qs(url) EXCEPT ![key] = <<>>], 1)

(***************************************************************************)
(* LimitOffsetPagination.                                                  *)
(***************************************************************************)
\* get_limit that forgets default_limit when the parameter is unusable.
get_limit_without_default(req) ==
    IF /\ has_param(req, limit_query_param)
       /\ ~positive_int_raises(query_param(req, limit_query_param), TRUE)
    THEN Some(positive_int(query_param(req, limit_query_param), TRUE, max_limit))
    ELSE None

get_limit(req) ==
    IF /\ has_param(req, limit_query_param)
       /\ ~positive_int_raises(query_param(req, limit_query_param), TRUE)
    THEN Some(positive_int(query_param(req, limit_query_param), TRUE, max_limit))
    ELSE default_limit

\* get_offset that lets a negative offset through.
get_offset_signed(req) ==
    IF /\ has_param(req, offset_query_param)
       /\ ~IntRaises(query_param(req, offset_query_param))
    THEN int(query_param(req, offset_query_param))
    ELSE 0

get_offset(req) ==
    IF /\ has_param(req, offset_query_param)
       /\ ~positive_int_raises(query_param(req, offset_query_param), FALSE)
    THEN positive_int(query_param(req, offset_query_param), FALSE, None)
    ELSE 0

\* A slice that takes the row at hi as well.
Slice_inclusive(df, lo, hi) == SubSeq(df, lo + 1, Min(hi + 1, Len(df)))

\* dataframe[lo:hi], a positional slice of the rows.
Slice(df, lo, hi) == SubSeq(df, lo + 1, Min(hi, Len(df)))

\* The window taken as if offsets counted from 1.
window_one_based(df, lim, off) ==
    IF Len(df) = 0 \/ off > Len(df)
    THEN [is_dataframe |-> FALSE, rows |-> <<>>]
    ELSE [is_dataframe |-> TRUE, rows |-> Slice(df, off + 1, off + lim + 1)]

\* The value paginate_dataframe returns once the limit is known: the empty
\* Python list, or a DataFrame slice.
window(df, lim, off) ==
    IF Len(df) = 0 \/ off > Len(df)
    THEN [is_dataframe |-> FALSE, rows |-> <<>>]
    ELSE [is_dataframe |-> TRUE, rows |-> Slice(df, off, off + lim)]

\* get_next_link that still links past a page ending exactly at count.
get_next_link_strict(req, lim, off, cnt) ==
    IF off + lim > cnt THEN None
    ELSE Some(replace_query_param(
                  replace_query_param(req, limit_query_param, lim),
                  offset_query_param, off + lim))

get_next_link(req, lim, off, cnt) ==
    IF off + lim >= cnt THEN None
    ELSE Some(replace_query_param(
                  replace_query_param(req, limit_query_param, lim),
                  offset_query_param, off + lim))

\* get_previous_link that keeps offset=0 on the link to the first page.
get_previous_link_keeps_zero(req, lim, off) ==
    IF off <= 0 THEN None
    ELSE IF off - lim < 0
         THEN Some(remove_query_param(
                       replace_query_param(req, limit_query_param, lim),
                       offset_query_param))
         ELSE Some(replace_query_param(
                       replace_query_param(req, limit_query_param, lim),
                       offset_query_param, off - lim))

get_previous_link(req, lim, off) ==
    IF off <= 0 THEN None
    ELSE IF off - lim <= 0
         THEN Some(remove_query_param(
                       replace_query_param(req, limit_query_param, lim),
                       offset_query_param))
         ELSE Some(replace_query_param(
                       replace_query_param(req, limit_query_param, lim),
                       offset_query_param, off - lim))

\* The final page without its clamp to 1.
final_page_unclamped(lim, off, cnt) ==
    IF lim # 0
    THEN divide_with_ceil(cnt - off, lim) + divide_with_ceil(off, lim)
    ELSE 1

\* What get_html_context computes: the current and final page numbers, the
\* previous/next URLs and page_number_to_url tabulated over the pages.
final_page(lim, off, cnt) ==
    IF lim # 0
    THEN Max(1, divide_with_ceil(cnt - off, lim) + divide_with_ceil(off, lim))
    ELSE 1

current_page(lim, off, cnt) ==
    LET current == IF lim # 0 THEN divide_with_ceil(off, lim) + 1 ELSE 1
    IN  IF current > final_page(lim, off, cnt) THEN final_page(lim, off, cnt) ELSE current

page_number_to_url(base_url, lim, off, cnt, page_number) ==
    IF page_number = 1
    THEN remove_query_param(base_url, offset_query_param)
    ELSE replace_query_param(base_url, offset_query_param,
                             off + ((page_number - current_page(lim, off, cnt)) * lim))

get_html_context(req, lim, off, cnt) ==
    [current |-> current_page(lim, off, cnt),
     final |-> final_page(lim, off, cnt),
     previous_url |-> get_previous_link(req, lim, off),
     next_url |-> get_next_link(req, lim, off, cnt),
     page_urls |-> [p \in 1..final_page(lim, off, cnt) |->
                        page_number_to_url(req, lim, off, cnt, p)]]

(***************************************************************************)
(* Serializers (serializers.py, DataFrameRecordsSerializer).               *)
(***************************************************************************)
Columns == <<"index", "a", "b">>

\* to_representation: instance.to_records(index=True) as columns and tuples.
to_representation(rows) ==
    [columns |-> Columns,
     data |-> [i \in 1..Len(rows) |-> <<rows[i].index, rows[i].a, rows[i].b>>]]

NoData == [columns |-> <<>>, data |-> <<>>]

(***************************************************************************)
(* Responses.                                                              *)
(***************************************************************************)
NoResponse ==
    [status |-> 0, paginated |-> FALSE, count |-> None, next |-> None,
     previous |-> None, results |-> NoData]

PlainResponse(code, data) ==
    [status |-> code, paginated |-> FALSE, count |-> None, next |-> None,
     previous |-> None, results |-> data]

\* get_paginated_response: count, next, previous, results.
get_paginated_response(req, lim, off, cnt, data) ==
    [status |-> 200, paginated |-> TRUE, count |-> Some(cnt),
     next |-> get_next_link(req, lim, off, cnt),
     previous |-> get_previous_link(req, lim, off),
     results |-> data]

(***************************************************************************)
(* The requests a client may send.                                         *)
(***************************************************************************)
Numerals == {str(n) : n \in 0..MaxParamValue}

\* Values a client may give: numerals, and strings _positive_int rejects.
LimitStrings == Numerals \cup {<<>>, <<"x">>}

OffsetStrings == Numerals \cup {str(0 - 1), <<"x">>}

Pairs ==
    ({limit_query_param} \X LimitStrings) \cup ({offset_query_param} \X OffsetStrings)
        \cup {<<"q", <<"x">>>>}

Queries == UNION {[1..n -> Pairs] : n \in 0..MaxParams}

InitialFrames ==
    {[i \in 1..n |-> [index |-> i, a |-> 0, b |-> 0]] : n \in 0..MaxRows}

(***************************************************************************)
(* ListDataFrameMixin.list, with GenericDataFrameAPIView.paginate_dataframe*)
(* and LimitOffsetPagination.paginate_dataframe inlined.                   *)
(***************************************************************************)
list(req, from) ==
    LET lim == IF pagination_class = "None" THEN None ELSE get_limit(req)
        off == get_offset(req)
        cnt == Len(dataframe)
    IN  /\ request' = req
        /\ origin' = from
        /\ op' = "list"
        /\ html' = None
        /\ limit' = lim
        /\ IF IsNone(lim)
           THEN /\ offset' = None
                /\ count' = None
                /\ display_page_controls' = FALSE
                /\ page' = None
                /\ response' = PlainResponse(200, to_representation(dataframe))
           ELSE /\ offset' = Some(off)
                /\ count' = Some(cnt)
                /\ display_page_controls' = (cnt > Val(lim))
                /\ page' = Some(window(dataframe, Val(lim), off))
                /\ response' =
                     IF Val(page').is_dataframe
                     THEN get_paginated_response(req, Val(lim), off, cnt,
                                                 to_representation(Val(page').rows))
                     ELSE PlainResponse(500, NoData)
        /\ traversal' =
             IF IsNone(lim) THEN None
             ELSE IF IsNone(from)
             THEN Some([start |-> off, limit |-> Val(lim), fixed |-> TRUE,
                        requests |-> 1, rows |-> Val(page').rows])
             ELSE Some([start |-> Val(traversal).start,
                        limit |-> Val(traversal).limit,
                        fixed |-> Val(traversal).fixed
                                  /\ Val(lim) = Val(traversal).limit,
                        requests |-> Val(traversal).requests + 1,
                        rows |-> Val(traversal).rows \o Val(page').rows])
        /\ UNCHANGED <<dataframe, updated, config, call>>

\* The view serves the request it received.
List ==
    /\ op = "received"
    /\ list(request, None)

\* A client gives a traversal up after this many requests.
MaxRequests == MaxRows + 1

\* The client requests the URL of the next link of the page it holds.
FollowNext ==
    /\ op = "list"
    /\ response.paginated
    /\ ~IsNone(response.next)
    /\ Val(traversal).requests < MaxRequests
    /\ list(Val(response.next), Some([offset |-> Val(offset), limit |-> Val(limit)]))

\* to_html -> get_html_context on the paginator that served the page.
GetHtmlContext ==
    /\ op = "list"
    /\ ~IsNone(limit)
    /\ IsNone(html)
    /\ html' = Some(get_html_context(request, Val(limit), Val(offset), Val(count)))
    /\ UNCHANGED <<dataframe, updated, config, request, limit, offset, count,
                   display_page_controls, page, response, origin, traversal,
                   call, op>>

\* A view class with its table and its pager configuration (default_limit
\* among defaults), and a request received.
Configured(defaults) ==
    /\ dataframe \in InitialFrames
    /\ dataframe0 = dataframe
    /\ updated = None
    /\ pagination_class \in {"None", "LimitOffsetPagination"}
    /\ default_limit \in IF pagination_class = "None" THEN {None} ELSE defaults
    /\ max_limit \in
         IF pagination_class = "None" THEN {None} ELSE {None, Some(MaxLimit)}
    /\ request \in Queries
    /\ limit = None
    /\ offset = None
    /\ count = None
    /\ display_page_controls = FALSE
    /\ page = None
    /\ response = NoResponse
    /\ html = None
    /\ origin = None
    /\ traversal = None
    /\ kwargs = None
    /\ request_data = None
    /\ op = "received"

\* default_limit is PAGE_SIZE: None unless configured, or a page size.
Init == Configured({None} \cup {Some(n) : n \in 1..MaxDefaultLimit})

\* The same, with a default_limit of 0 admitted: the one way a limit of 0
\* reaches the pager.
InitAnyDefault == Configured({None} \cup {Some(n) : n \in 0..MaxDefaultLimit})

Next == List \/ FollowNext \/ GetHtmlContext

Spec == Init /\ [][Next]_vars

SpecAnyDefault == InitAnyDefault /\ [][Next]_vars

(***************************************************************************)
(* GenericDataFrameAPIView and the create/retrieve/update/destroy mixins.  *)
(* A request body is None when the serializer rejects it, and otherwise    *)
(* the validated one-row DataFrame: the row's label and the columns it     *)
(* carries, each holding the value 1.  Update bodies carry the label of    *)
(* the row they are sent to.                                               *)
(***************************************************************************)
DataColumns == {"a", "b"}

\* The labels a client may name: those of the largest table and one beyond.
Labels == 1..(MaxRows + 1)

Bodies(label) ==
    {None} \cup {Some([index |-> label, columns |-> cs]) : cs \in (SUBSET DataColumns) \ {{}}}

FullBodies(label) == {None, Some([index |-> label, columns |-> DataColumns])}

\* The rows of a validated DataFrame; a column it does not carry is NaN (-1).
frame_of(body) ==
    <<[index |-> body.index,
       a |-> IF "a" \in body.columns THEN 1 ELSE 0 - 1,
       b |-> IF "b" \in body.columns THEN 1 ELSE 0 - 1]>>

\* update_dataframe: the default implementation just returns its argument.
update_dataframe(df) == df

\* dataframe.loc[label] raises KeyError when no row carries the label.
index_row_raises(df, label) == ~\E i \in 1..Len(df) : df[i].index = label

\* index_row: dataframe.loc[label].to_frame().T, a copy of the row.
index_row(df, label) == df[CHOOSE i \in 1..Len(df) : df[i].index = label]

\* instance.ix[validated_data.index, validated_data.columns] = validated_data[:]
assign_columns(instance, body) ==
    [instance EXCEPT !.a = IF "a" \in body.columns THEN 1 ELSE @,
                     !.b = IF "b" \in body.columns THEN 1 ELSE @]

\* dataframe.ix[instance.index] = instance, on the object get_dataframe()
\* returned: the view's own table.
assign_row(df, instance) ==
    [i \in 1..Len(df) |-> IF df[i].index = instance.index THEN instance ELSE df[i]]

\* dataframe.append(validated_data): a new table.
append(df, body) == df \o frame_of(body)

\* dataframe.drop(instance.index): a new table.
drop(df, label) == SelectSeq(df, LAMBDA r : r.index # label)

Http404 == PlainResponse(404, NoData)

ValidationError == PlainResponse(400, NoData)

Create ==
    \E label \in Labels : \E body \in FullBodies(label) :
        /\ op' = "create"
        /\ kwargs' = None
        /\ request_data' = body
        /\ IF IsNone(body)
           THEN /\ response' = ValidationError
                /\ updated' = None
           ELSE /\ updated' = Some(update_dataframe(append(dataframe, Val(body))))
                /\ response' = PlainResponse(201, to_representation(frame_of(Val(body))))
        /\ UNCHANGED <<dataframe, config, pager>>

Retrieve ==
    \E label \in Labels :
        /\ op' = "retrieve"
        /\ kwargs' = Some(label)
        /\ request_data' = None
        /\ updated' = None
        /\ response' =
             IF index_row_raises(dataframe, label) THEN Http404
             ELSE PlainResponse(200, to_representation(<<index_row(dataframe, label)>>))
        /\ UNCHANGED <<dataframe, config, pager>>

\* update that validates the body before it looks the row up.
update_validates_first(label, body, partial) ==
    /\ kwargs' = Some(label)
    /\ request_data' = body
    /\ IF IsNone(body)
       THEN /\ response' = ValidationError
            /\ updated' = None
            /\ dataframe' = dataframe
       ELSE IF index_row_raises(dataframe, label)
       THEN /\ response' = Http404
            /\ updated' = None
            /\ dataframe' = dataframe
       ELSE /\ dataframe' =
                 assign_row(dataframe,
                            assign_columns(index_row(dataframe, label), Val(body)))
            /\ updated' = Some(update_dataframe(dataframe'))
            /\ response' = PlainResponse(200, to_representation(frame_of(Val(body))))
    /\ UNCHANGED <<config, pager>>

\* UpdateDataFrameMixin.update with perform_update inlined; partial only
\* reaches the serializer.
update(label, body, partial) ==
    /\ kwargs' = Some(label)
    /\ request_data' = body
    /\ IF index_row_raises(dataframe, label)
       THEN /\ response' = Http404
            /\ updated' = None
            /\ dataframe' = dataframe
       ELSE IF IsNone(body)
       THEN /\ response' = ValidationError
            /\ updated' = None
            /\ dataframe' = dataframe
       ELSE /\ dataframe' =
                 assign_row(dataframe,
                            assign_columns(index_row(dataframe, label), Val(body)))
            /\ updated' = Some(update_dataframe(dataframe'))
            /\ response' = PlainResponse(200, to_representation(frame_of(Val(body))))
    /\ UNCHANGED <<config, pager>>

Update ==
    \E label \in Labels : \E body \in FullBodies(label) :
        /\ op' = "update"
        /\ update(label, body, FALSE)

PartialUpdate ==
    \E label \in Labels : \E body \in Bodies(label) :
        /\ op' = "partial_update"
        /\ update(label, body, TRUE)

Destroy ==
    \E label \in Labels :
        /\ op' = "destroy"
        /\ kwargs' = Some(label)
        /\ request_data' = None
        /\ IF index_row_raises(dataframe, label)
           THEN /\ response' = Http404
                /\ updated' = None
           ELSE /\ updated' = Some(update_dataframe(drop(dataframe, label)))
                /\ response' = PlainResponse(204, NoData)
        /\ UNCHANGED <<dataframe, config, pager>>

\* A view over a table, with no paginator, before its first request.
InitView ==
    /\ dataframe \in InitialFrames
    /\ dataframe0 = dataframe
    /\ updated = None
    /\ pagination_class = "None"
    /\ default_limit = None
    /\ max_limit = None
    /\ request = <<>>
    /\ limit = None
    /\ offset = None
    /\ count = None
    /\ display_page_controls = FALSE
    /\ page = None
    /\ response = NoResponse
    /\ html = None
    /\ origin = None
    /\ traversal = None
    /\ kwargs = None
    /\ request_data = None
    /\ op = "idle"

NextView == Create \/ Retrieve \/ Update \/ PartialUpdate \/ Destroy

SpecView == InitView /\ [][NextView]_vars

(***************************************************************************)
(* Vocabulary of the properties.                                           *)
(***************************************************************************)
\* No integer the model handles exceeds this.
Horizon == MaxParamValue + MaxRows + MaxDefaultLimit + MaxLimit

\* The pager has served the request: limit, offset and count are set.
Paginated == op = "list" /\ ~IsNone(limit)

\* The request carries no limit parameter, or one that is not the numeral of
\* a strictly positive integer.
LimitParamUnusable(req) ==
    \/ ~has_param(req, limit_query_param)
    \/ ~\E n \in 1..Horizon : query_param(req, limit_query_param) = str(n)

\* The request carries no offset parameter, or one that is not the numeral of
\* a non-negative integer.
OffsetParamUnusable(req) ==
    \/ ~has_param(req, offset_query_param)
    \/ ~\E n \in 0..Horizon : query_param(req, offset_query_param) = str(n)

\* The URL keeps every parameter of the request other than limit and offset.
KeepsOtherParams(url, req) ==
    /\ values_of(url, "q") = values_of(req, "q")
    /\ Len(url) = Len(values_of(url, limit_query_param))
                    + Len(values_of(url, offset_query_param))
                    + Len(values_of(req, "q"))

\* ceil(a / b) for b > 0, from its definition.
Ceil(a, b) == CHOOSE k \in (0 - Horizon)..Horizon : k * b >= a /\ (k - 1) * b < a

\* C1: for N >= 0, an effective limit > 0 and an offset >= 0, paginate_dataframe
\* reports count = N and returns the rows [offset, min(offset+limit, N)) of the
\* table: min(limit, max(0, N - offset)) rows when offset <= N, none when
\* N = 0 or offset > N, and never an error.
C1_WindowIsTheSlice ==
    (Paginated /\ Val(limit) > 0) =>
        LET N == Len(dataframe)
            o == Val(offset)
            L == Val(limit)
            n == IF o <= N THEN Min(L, Max(0, N - o)) ELSE 0
        IN  /\ o >= 0
            /\ count = Some(N)
            /\ ~IsNone(page)
            /\ Len(Val(page).rows) = n
            /\ (o <= N => n = Min(o + L, N) - o)
            /\ \A i \in 1..n : Val(page).rows[i] = dataframe[o + i]

\* A window cut short by the end of the table, starting inside the table.
C1_Witness ==
    /\ Paginated
    /\ Val(limit) > 1
    /\ Val(offset) > 0
    /\ Len(Val(page).rows) > 0
    /\ Len(Val(page).rows) < Val(limit)

\* C2 as stated: a missing or unusable limit parameter disables pagination:
\* paginate_dataframe returns None and the whole table is returned unpaginated
\* without error.
C2_UnusableLimitDisablesPagination ==
    (op = "list" /\ LimitParamUnusable(request)) =>
        /\ IsNone(page)
        /\ ~response.paginated
        /\ response.status = 200
        /\ response.results = to_representation(dataframe)

\* C2 amended: a missing or unusable limit parameter makes the effective limit
\* default_limit; pagination is disabled (None, the whole table unpaginated, no
\* error) exactly when default_limit is None, and with a default_limit
\* configured the table is windowed with that limit.
C2_UnusableLimitFallsBackToDefault ==
    (op = "list" /\ pagination_class # "None" /\ LimitParamUnusable(request)) =>
        /\ limit = default_limit
        /\ IsNone(default_limit) <=> IsNone(page)
        /\ IsNone(default_limit) =>
              /\ ~response.paginated
              /\ response.status = 200
              /\ response.results = to_representation(dataframe)
        /\ ~IsNone(default_limit) =>
              /\ count = Some(Len(dataframe))
              /\ Len(Val(page).rows) <= Max(Val(default_limit), 0)

\* A malformed limit parameter with a default_limit configured: a page is served.
C2_Witness ==
    /\ op = "list"
    /\ has_param(request, limit_query_param)
    /\ LimitParamUnusable(request)
    /\ ~IsNone(default_limit)
    /\ ~IsNone(page)
    /\ Len(Val(page).rows) > 0

\* C3: after paginate_dataframe, get_next_link is null exactly when
\* offset + limit >= count; otherwise it is the request URL with exactly one
\* limit parameter, the effective limit, exactly one offset parameter,
\* offset + limit, and every other parameter kept.
C3_NextLink ==
    Paginated =>
        LET nxt == get_next_link(request, Val(limit), Val(offset), Val(count))
        IN  /\ IsNone(nxt) <=> (Val(offset) + Val(limit) >= Val(count))
            /\ ~IsNone(nxt) =>
                  /\ values_of(Val(nxt), limit_query_param) = <<str(Val(limit))>>
                  /\ values_of(Val(nxt), offset_query_param) =
                         <<str(Val(offset) + Val(limit))>>
                  /\ KeepsOtherParams(Val(nxt), request)
            /\ response.paginated => response.next = nxt

\* A next link for a request that carried an offset and another parameter.
C3_Witness ==
    /\ Paginated
    /\ response.paginated
    /\ ~IsNone(response.next)
    /\ has_param(request, offset_query_param)
    /\ has_param(request, "q")

\* C4: after paginate_dataframe, get_previous_link is null exactly when
\* offset <= 0; when offset > 0 and offset - limit <= 0 it is the request URL
\* without an offset parameter; otherwise its one offset parameter is
\* offset - limit; the offset it points to is never negative.
C4_PreviousLink ==
    Paginated =>
        LET prv == get_previous_link(request, Val(limit), Val(offset))
        IN  /\ IsNone(prv) <=> (Val(offset) <= 0)
            /\ (Val(offset) > 0 /\ Val(offset) - Val(limit) <= 0) =>
                  /\ values_of(Val(prv), offset_query_param) = <<>>
                  /\ KeepsOtherParams(Val(prv), request)
            /\ (Val(offset) > 0 /\ Val(offset) - Val(limit) > 0) =>
                  /\ values_of(Val(prv), offset_query_param) =
                         <<str(Val(offset) - Val(limit))>>
                  /\ KeepsOtherParams(Val(prv), request)
            /\ ~IsNone(prv) =>
                  \A i \in 1..Len(values_of(Val(prv), offset_query_param)) :
                      \E n \in 0..Horizon :
                          values_of(Val(prv), offset_query_param)[i] = str(n)
            /\ response.paginated => response.previous = prv

\* A previous link for the page whose offset equals the limit: the first page.
C4_Witness ==
    /\ Paginated
    /\ response.paginated
    /\ Val(offset) > 0
    /\ Val(offset) = Val(limit)
    /\ has_param(request, offset_query_param)
    /\ ~IsNone(response.previous)

\* C5: a page at offset o with limit L that has a next link: requesting that
\* link, when it is served with the same limit, gives a previous link whose
\* offset is o when o > 0 and that has no offset parameter when o = 0.
C5_NextThenPrevious ==
    (Paginated /\ ~IsNone(origin) /\ Val(limit) = Val(origin).limit) =>
        LET prv == get_previous_link(request, Val(limit), Val(offset))
            o == Val(origin).offset
        IN  /\ Val(offset) = o + Val(limit)
            /\ ~IsNone(prv)
            /\ o > 0 => values_of(Val(prv), offset_query_param) = <<str(o)>>
            /\ o = 0 => values_of(Val(prv), offset_query_param) = <<>>

\* The next link of an interior page was followed and served with the same limit.
C5_Witness ==
    /\ Paginated
    /\ ~IsNone(origin)
    /\ Val(origin).offset > 0
    /\ Val(limit) = Val(origin).limit
    /\ response.paginated
    /\ ~IsNone(response.previous)

\* C6: in get_html_context, for every count >= 0, offset >= 0 and limit, the
\* final page is max(1, ceil((count - offset)/limit) + ceil(offset/limit))
\* (1 for a zero limit) and the current page satisfies 1 <= current <= final.
C6_CurrentWithinFinal ==
    ~IsNone(html) =>
        LET h == Val(html)
            L == Val(limit)
            o == Val(offset)
            c == Val(count)
        IN  /\ c >= 0 /\ o >= 0
            /\ L > 0 => h.final = Max(1, Ceil(c - o, L) + Ceil(o, L))
            /\ L = 0 => h.final = 1
            /\ 1 <= h.current
            /\ h.current <= h.final

\* The page links of a request whose offset is past the end of the table,
\* the current page clamped to the final one.
C6_Witness ==
    /\ ~IsNone(html)
    /\ Val(limit) > 0
    /\ Val(offset) > Val(count)
    /\ Val(html).current = Val(html).final
    /\ Val(html).current < Ceil(Val(offset), Val(limit)) + 1

\* C7 as stated: with max_limit configured, the effective limit of every page
\* request is a positive integer <= max_limit, also when it falls back to
\* default_limit, and no window is longer than max_limit.
C7_LimitNeverExceedsMaxLimit ==
    (Paginated /\ ~IsNone(max_limit)) =>
        /\ 1 <= Val(limit)
        /\ Val(limit) <= Val(max_limit)
        /\ Len(Val(page).rows) <= Val(max_limit)

\* C7 amended: with max_limit configured, a limit taken from the request is a
\* positive integer <= max_limit (a larger one is clamped to max_limit); a
\* limit that falls back to default_limit is default_limit as configured,
\* unclamped; no window is longer than the larger of max_limit and
\* default_limit.
C7_RequestedLimitIsClamped ==
    (Paginated /\ ~IsNone(max_limit)) =>
        /\ ~LimitParamUnusable(request) =>
              /\ 1 <= Val(limit)
              /\ Val(limit) <= Val(max_limit)
              /\ \E n \in 1..Horizon :
                    /\ query_param(request, limit_query_param) = str(n)
                    /\ Val(limit) = Min(n, Val(max_limit))
        /\ LimitParamUnusable(request) => limit = default_limit
        /\ Len(Val(page).rows) <=
               Max(Val(max_limit), IF IsNone(default_limit) THEN 0 ELSE Val(default_limit))

\* A requested limit above max_limit was clamped and a full window returned.
C7_Witness ==
    /\ Paginated
    /\ ~IsNone(max_limit)
    /\ ~LimitParamUnusable(request)
    /\ query_param(request, limit_query_param) # str(Val(limit))
    /\ Val(limit) = Val(max_limit)
    /\ Len(Val(page).rows) = Val(max_limit)

\* C8: in get_html_context, the URL page_number_to_url gives for the (possibly
\* clamped) current page points to the request's current offset.
C8_CurrentPageUrlKeepsOffset ==
    ~IsNone(html) =>
        LET u == Val(html).page_urls[Val(html).current]
        IN  IF Val(offset) = 0
            THEN values_of(u, offset_query_param) \in {<<>>, <<str(0)>>}
            ELSE values_of(u, offset_query_param) = <<str(Val(offset))>>

\* C9: a missing or malformed offset parameter (absent, non-numeric, negative)
\* is no error: get_offset returns 0 for it and the parsed non-negative integer
\* otherwise, so the offset the pager holds is >= 0.
C9_OffsetDefaultsToZero ==
    Paginated =>
        /\ ~IsNone(offset)
        /\ Val(offset) >= 0
        /\ OffsetParamUnusable(request) => Val(offset) = 0
        /\ ~OffsetParamUnusable(request) =>
              query_param(request, offset_query_param) = str(Val(offset))

\* A negative offset parameter was served as offset 0.
C9_Witness ==
    /\ Paginated
    /\ has_param(request, offset_query_param)
    /\ query_param(request, offset_query_param) = str(0 - 1)
    /\ offset = Some(0)
    /\ response.paginated
    /\ Len(Val(page).rows) > 0

\* C10: with the default update_dataframe no changing operation sticks: after
\* any sequence of create, update, partial_update and destroy calls the table
\* get_dataframe() returns is the table before the sequence.
C10_NoChangeSticks == dataframe = dataframe0

\* C11: retrieve, update, partial_update and destroy on a row label the table
\* does not hold end in Http404: the lookup comes before the validation of the
\* body and before any change, so update_dataframe is not called and the
\* table is left as it was.
C11_MissingRowIsNotFound ==
    [][(/\ op' \in {"retrieve", "update", "partial_update", "destroy"}
        /\ ~IsNone(kwargs')
        /\ ~\E i \in 1..Len(dataframe) : dataframe[i].index = Val(kwargs'))
       => (/\ response' = Http404
           /\ updated' = None
           /\ dataframe' = dataframe)]_vars

\* An update with a body the serializer would reject, sent to a label the
\* table does not hold, after an earlier update changed the table.
C11_Witness ==
    /\ op \in {"update", "partial_update"}
    /\ ~IsNone(kwargs)
    /\ ~\E i \in 1..Len(dataframe) : dataframe[i].index = Val(kwargs)
    /\ IsNone(request_data)
    /\ response.status = 404
    /\ updated = None
    /\ dataframe # dataframe0

\* C12: list answers with the paginated body {count, next, previous, results}
\* exactly when a paginator is configured and paginate_dataframe returned a
\* window, the empty window for N = 0 or offset > N included (count = N, no
\* results), and only after limit, offset and count were set on the
\* paginator; in every other case it answers with the whole table.
C12_PaginatedExactlyWhenWindowed ==
    op = "list" =>
        IF pagination_class # "None" /\ ~IsNone(page)
        THEN /\ ~IsNone(limit)
             /\ ~IsNone(offset)
             /\ count = Some(Len(dataframe))
             /\ response =
                  get_paginated_response(request, Val(limit), Val(offset),
                                         Len(dataframe),
                                         to_representation(Val(page).rows))
             /\ (Len(dataframe) = 0 \/ Val(offset) > Len(dataframe))
                    => response.results.data = <<>>
        ELSE response = PlainResponse(200, to_representation(dataframe))

\* A traversal that began at offset 0 of a table that is not empty and was
\* served with one positive limit throughout.
TraversalFromStart ==
    /\ op = "list"
    /\ ~IsNone(traversal)
    /\ Val(traversal).start = 0
    /\ Val(traversal).fixed
    /\ Val(traversal).limit > 0
    /\ Len(dataframe) > 0

\* C13: for a table of N > 0 rows that does not change and one effective limit
\* L > 0, starting at offset 0 and following the next links ends (next is
\* null) after exactly ceil(N / L) requests; the windows on the way are
\* pairwise disjoint and, in order, make up the whole table.
C13_TraversalIsCompleteAndFinite ==
    TraversalFromStart =>
        LET N == Len(dataframe)
            L == Val(traversal).limit
            k == Val(traversal).requests
            got == Val(traversal).rows
        IN  /\ dataframe = dataframe0
            /\ response.paginated
            /\ k <= Ceil(N, L)
            /\ IsNone(response.next) <=> k = Ceil(N, L)
            /\ Val(offset) = (k - 1) * L
            /\ got = SubSeq(dataframe, 1, Min(k * L, N))
            /\ \A i, j \in 1..Len(got) : i # j => got[i].index # got[j].index
            /\ IsNone(response.next) => got = dataframe

\* A traversal of a full table whose last window is cut short by the end of
\* the table, ended after more than one request with every row collected.
C13_Witness ==
    /\ TraversalFromStart
    /\ IsNone(response.next)
    /\ Len(dataframe) = MaxRows
    /\ Val(traversal).limit * Val(traversal).requests > Len(dataframe)
    /\ Val(traversal).requests > 1
    /\ Val(traversal).rows = dataframe

====
